---- MODULE Spec2Model ----
(***************************************************************************)
(* A model of build-system/pr-check/utils.js and of the checks script      *)
(* (pr-check/checks.js) that uses it.                                       *)
(*                                                                         *)
(* One Node process runs either the checks script's main(), or a caller    *)
(* script that invokes a short sequence of the functions utils.js exports. *)
(* Every external command, console line and awaited promise the process    *)
(* issues is appended to `log`, so that orderings can be stated over it.   *)
(***************************************************************************)
EXTENDS Integers, Sequences, FiniteSets, TLC

VARIABLES
    env,          \* what ../travis reports: [travis, buildNumber]
    program,      \* the exported functions the running script calls, in order
    ci,           \* how many of them have been called
    pc,           \* where the process is inside the current call
    cur,          \* arguments of the running upload/download helper
    log,          \* everything issued so far (commands, console lines, awaits)
    files,        \* local files and directories the commands have produced
    cli,          \* the gcloud configuration (ambient, persistent)
    bucket,       \* objects in the storage bucket
    proc,         \* the Node process: [state, status, exitCode]
    now,          \* what Date.now() returns
    ret,          \* what the last timedExec returned to its caller (p.status)
    authStates,   \* history: [keyFile, cli] at each return of authenticateWithStorageLocation_
    plan,         \* main(): the timed checks still ahead
    startTime,    \* main(): the token of the top-level timer
    buildTargets  \* main(): what determineBuildTargets returned

vars == <<env, program, ci, pc, cur, log, files, cli, bucket, proc, now, ret,
          authStates, plan, startTime, buildTargets>>

---------------------------------------------------------------------------
(* Bounds of the model *)

MaxCalls == 2          \* calls of exported functions per caller script
MaxClock == 122000     \* main(): cap on the clock, in ms

(* Inputs *)
BuildNumbers == {"1234"}
Statuses == {0, 1, 2}                       \* exit status of an external command
Durations == {0, 999, 59999, 61000, 3661000}
CheckDurations == {0, 61000}                \* main(): duration of one gulp check
TimedCmds == {"gulp dist --fortesting"}
AllTargets == {"AVA", "BABEL_PLUGIN", "CACHES_JSON", "DOCS", "DEV_DASHBOARD", "RUNTIME"}
BranchPoints == {"", "abc1234"}             \* gitBranchCreationPoint(): '' when none

---------------------------------------------------------------------------
(* Constants of utils.js *)

BUILD_OUTPUT_FILE(e) == IF e.travis THEN "amp_build_" \o e.buildNumber \o ".zip" ELSE ""
DIST_OUTPUT_FILE(e) == IF e.travis THEN "amp_dist_" \o e.buildNumber \o ".zip" ELSE ""
BUILD_OUTPUT_DIRS == "build/ dist/ dist.3p/ EXTENSIONS_CSS_MAP"
DIST_OUTPUT_DIRS == "build/ dist/ dist.3p/ dist.tools/ EXTENSIONS_CSS_MAP examples/ test/manual/"
OUTPUT_STORAGE_LOCATION == "gs://amp-travis-builds"
OUTPUT_STORAGE_KEY_FILE == "sa-travis-key.json"
OUTPUT_STORAGE_PROJECT_ID == "amp-travis-build-storage"
OUTPUT_STORAGE_SERVICE_ACCOUNT == "sa-travis@amp-travis-build-storage.iam.gserviceaccount.com"
FILENAME == "checks.js"

---------------------------------------------------------------------------
(* Log entries *)

Ev(type, step, cmd) ==
    [call |-> ci, type |-> type, step |-> step, cmd |-> cmd,
     src |-> "", dst |-> "", status |-> 0, ms |-> 0, text |-> ""]

\* exec(cmd) from ../exec: runs the command, never terminates the process.
\* The callers in utils.js drop the returned status of the fold markers.
exec(step, cmd) == Ev("exec", step, cmd)

\* The command execOrDie(cmd) runs, with the exit status it ended with.
Fatal(step, cmd, st) == [Ev("execOrDie", step, cmd) EXCEPT !.status = st]

\* A gsutil copy: the command with its source and destination arguments.
Copy(step, cmd, src, dst, st) == [Fatal(step, cmd, st) EXCEPT !.src = src, !.dst = dst]

\* execOrDie(cmd) from ../exec: the process terminates with the command's
\* status when it is not 0, and goes on otherwise.
execOrDie(p, st) ==
    IF st = 0 THEN p ELSE [p EXCEPT !.state = "exited", !.status = st]

\* Where control is after an execOrDie with status st.
AfterOrDie(st, next) == IF st = 0 THEN next ELSE "dead"

Running == proc.state = "running"

\* An entry issued by the call that is being entered (ci counts the calls
\* already entered).
At(e, k) == [e EXCEPT !.call = k]

---------------------------------------------------------------------------
(* Timer *)

\* startTimer: prints the "Running" line; the token it returns is `now`.
startTimer(functionName, fileName) ==
    [Ev("console", "Running", functionName) EXCEPT !.src = fileName]

\* Faulty variant of TotalTime: the seconds are not reduced modulo a minute.
TotalTime_NoMod(executionTime) ==
    LET mins == executionTime \div 60000
        secs == executionTime \div 1000
    IN  ToString(mins) \o "m " \o ToString(secs) \o "s"

\* The text stopTimer prints for an execution time in milliseconds.
TotalTime(executionTime) ==
    LET mins == executionTime \div 60000
        secs == (executionTime % 60000) \div 1000
    IN  ToString(mins) \o "m " \o ToString(secs) \o "s"

\* stopTimer: prints the "Done running" line with the time since `start`.
stopTimer(functionName, fileName, start, endTime) ==
    [Ev("console", "Done running", functionName) EXCEPT
        !.src = fileName, !.ms = endTime - start,
        !.text = TotalTime(endTime - start)]

\* timedExec(cmd): start the timer, exec, stop the timer, return p.
TimedExec ==
    /\ Running /\ pc = "caller" /\ ci < Len(program)
    /\ program[ci + 1] = "timedExec"
    /\ \E cmd \in TimedCmds, d \in Durations, st \in Statuses :
          /\ log' = log \o
                << At(startTimer(cmd, "utils.js"), ci + 1),
                   At([exec("timed", cmd) EXCEPT !.status = st], ci + 1),
                   At(stopTimer(cmd, "utils.js", now, now + d), ci + 1) >>
          /\ now' = now + d
          /\ ret' = st
    /\ ci' = ci + 1
    /\ UNCHANGED <<env, program, pc, cur, files, cli, bucket, proc,
                   authStates, plan, startTime, buildTargets>>

\* timedExecOrDie(cmd): start the timer, execOrDie, stop the timer.
TimedExecOrDie ==
    /\ Running /\ pc = "caller" /\ ci < Len(program)
    /\ program[ci + 1] = "timedExecOrDie"
    /\ \E cmd \in TimedCmds, d \in Durations, st \in Statuses :
          /\ log' = log \o
                << At(startTimer(cmd, "utils.js"), ci + 1),
                   At(Fatal("timed", cmd, st), ci + 1) >> \o
                (IF st = 0
                   THEN << At(stopTimer(cmd, "utils.js", now, now + d), ci + 1) >>
                   ELSE << >>)
          /\ now' = now + d
          /\ proc' = execOrDie(proc, st)
          /\ pc' = AfterOrDie(st, "caller")
    /\ ci' = ci + 1
    /\ UNCHANGED <<env, program, cur, files, cli, bucket, ret,
                   authStates, plan, startTime, buildTargets>>

---------------------------------------------------------------------------
(* Upload and download of the build output *)

FoldStart(name) == exec("fold", "echo travis_fold:start:" \o name \o " && echo")
FoldEnd(name) == exec("fold", "echo travis_fold:end:" \o name)

\* Entering one of the four transfer functions: the helper's arguments.
Enter(fn, file, dirs, dir, first) ==
    /\ Running /\ pc = "caller" /\ ci < Len(program)
    /\ program[ci + 1] = fn
    /\ ci' = ci + 1
    /\ cur' = [fn |-> fn, file |-> file, dirs |-> dirs, dir |-> dir, then |-> "caller"]
    /\ pc' = first

uploadBuildOutput ==
    /\ Enter("uploadBuildOutput", BUILD_OUTPUT_FILE(env), BUILD_OUTPUT_DIRS, "up", "zip")
    /\ UNCHANGED <<env, program, log, files, cli, bucket, proc, now, ret,
                   authStates, plan, startTime, buildTargets>>

uploadDistOutput ==
    /\ Enter("uploadDistOutput", DIST_OUTPUT_FILE(env), DIST_OUTPUT_DIRS, "up", "zip")
    /\ UNCHANGED <<env, program, log, files, cli, bucket, proc, now, ret,
                   authStates, plan, startTime, buildTargets>>

\* downloadOutput_ up to the call of authenticateWithStorageLocation_.
DownloadStart(fn, file, dirs) ==
    /\ Enter(fn, file, dirs, "down", "decrypt")
    /\ log' = Append(log, At(FoldStart("download_results"), ci + 1))
    /\ UNCHANGED <<env, program, files, cli, bucket, proc, now, ret,
                   authStates, plan, startTime, buildTargets>>

downloadBuildOutput ==
    DownloadStart("downloadBuildOutput", BUILD_OUTPUT_FILE(env), BUILD_OUTPUT_DIRS)

downloadDistOutput ==
    DownloadStart("downloadDistOutput", DIST_OUTPUT_FILE(env), DIST_OUTPUT_DIRS)

\* One fatal step of a flow: the entries before it, the command with its
\* status, and, when the process lives on, the entries after it.
FatalStep(at, before, e, after, next) ==
    /\ Running /\ pc = at
    /\ log' = log \o before \o << e >> \o
                (IF e.status = 0 THEN after ELSE << >>)
    /\ proc' = execOrDie(proc, e.status)
    /\ pc' = AfterOrDie(e.status, next)

\* A step run through exec where the code has execOrDie: its failure is
\* not looked at. Used by the faulty variants below.
NonFatalStep(at, before, e, after, next) ==
    /\ Running /\ pc = at
    /\ log' = log \o before \o << e >> \o after
    /\ proc' = proc
    /\ pc' = next

\* Faulty variant of Zip: zip is run through exec.
Zip_NonFatal ==
    \E st \in Statuses :
      /\ NonFatalStep("zip", << FoldStart("zip_results") >>,
                      Fatal("zip", "zip -r " \o cur.file \o " " \o cur.dirs, st),
                      << FoldEnd("zip_results"), FoldStart("upload_results") >>,
                      "decrypt")
      /\ files' = IF st = 0 THEN files \cup {cur.file} ELSE files
      /\ UNCHANGED <<env, program, ci, cur, cli, bucket, now, ret,
                     authStates, plan, startTime, buildTargets>>

\* uploadOutput_: the zip command, then the fold marker that opens the upload.
Zip ==
    \E st \in Statuses :
      /\ FatalStep("zip", << FoldStart("zip_results") >>,
                   Fatal("zip", "zip -r " \o cur.file \o " " \o cur.dirs, st),
                   << FoldEnd("zip_results"), FoldStart("upload_results") >>,
                   "decrypt")
      /\ files' = IF st = 0 THEN files \cup {cur.file} ELSE files
      /\ UNCHANGED <<env, program, ci, cur, cli, bucket, now, ret,
                     authStates, plan, startTime, buildTargets>>

\* Faulty variant of DecryptTravisKey: openssl is run through exec.
DecryptTravisKey_NonFatal ==
    \E st \in Statuses :
      /\ NonFatalStep("decrypt", << >>,
                      Fatal("decrypt",
                            "openssl aes-256-cbc -md sha256 -k ${GCP_TOKEN} -in "
                              \o "build-system/sa-travis-key.json.enc -out "
                              \o OUTPUT_STORAGE_KEY_FILE \o " -d", st),
                      << >>, "activate")
      /\ files' = IF st = 0 THEN files \cup {OUTPUT_STORAGE_KEY_FILE} ELSE files
      /\ UNCHANGED <<env, program, ci, cur, cli, bucket, now, ret,
                     authStates, plan, startTime, buildTargets>>

\* decryptTravisKey_
DecryptTravisKey ==
    \E st \in Statuses :
      /\ FatalStep("decrypt", << >>,
                   Fatal("decrypt",
                         "openssl aes-256-cbc -md sha256 -k ${GCP_TOKEN} -in "
                           \o "build-system/sa-travis-key.json.enc -out "
                           \o OUTPUT_STORAGE_KEY_FILE \o " -d", st),
                   << >>, "activate")
      /\ files' = IF st = 0 THEN files \cup {OUTPUT_STORAGE_KEY_FILE} ELSE files
      /\ UNCHANGED <<env, program, ci, cur, cli, bucket, now, ret,
                     authStates, plan, startTime, buildTargets>>

\* authenticateWithStorageLocation_: gcloud auth activate-service-account
ActivateServiceAccount ==
    \E st \in Statuses :
      /\ FatalStep("activate", << >>,
                   Fatal("activate",
                         "gcloud auth activate-service-account --key-file "
                           \o OUTPUT_STORAGE_KEY_FILE, st),
                   << >>, "set_account")
      /\ cli' = IF st = 0
                  THEN [cli EXCEPT !.credentialed = @ \cup {OUTPUT_STORAGE_SERVICE_ACCOUNT}]
                  ELSE cli
      /\ UNCHANGED <<env, program, ci, cur, files, bucket, now, ret,
                     authStates, plan, startTime, buildTargets>>

\* authenticateWithStorageLocation_: gcloud config set account
SetAccount ==
    \E st \in Statuses :
      /\ FatalStep("set_account", << >>,
                   Fatal("set_account",
                         "gcloud config set account " \o OUTPUT_STORAGE_SERVICE_ACCOUNT, st),
                   << >>, "set_pass_credentials")
      /\ cli' = IF st = 0
                  THEN [cli EXCEPT !.account = OUTPUT_STORAGE_SERVICE_ACCOUNT]
                  ELSE cli
      /\ UNCHANGED <<env, program, ci, cur, files, bucket, now, ret,
                     authStates, plan, startTime, buildTargets>>

\* Faulty variant of SetPassCredentials: the flag is flipped, not set.
SetPassCredentials_Toggle ==
    \E st \in Statuses :
      /\ FatalStep("set_pass_credentials", << >>,
                   Fatal("set_pass_credentials",
                         "gcloud config set pass_credentials_to_gsutil true", st),
                   << >>, "set_project")
      /\ cli' = IF st = 0
                  THEN [cli EXCEPT !.pass_credentials_to_gsutil = ~@]
                  ELSE cli
      /\ UNCHANGED <<env, program, ci, cur, files, bucket, now, ret,
                     authStates, plan, startTime, buildTargets>>

\* authenticateWithStorageLocation_: gcloud config set pass_credentials_to_gsutil
SetPassCredentials ==
    \E st \in Statuses :
      /\ FatalStep("set_pass_credentials", << >>,
                   Fatal("set_pass_credentials",
                         "gcloud config set pass_credentials_to_gsutil true", st),
                   << >>, "set_project")
      /\ cli' = IF st = 0
                  THEN [cli EXCEPT !.pass_credentials_to_gsutil = TRUE]
                  ELSE cli
      /\ UNCHANGED <<env, program, ci, cur, files, bucket, now, ret,
                     authStates, plan, startTime, buildTargets>>

\* authenticateWithStorageLocation_: gcloud config set project
SetProject ==
    \E st \in Statuses :
      /\ FatalStep("set_project", << >>,
                   Fatal("set_project",
                         "gcloud config set project " \o OUTPUT_STORAGE_PROJECT_ID, st),
                   << >>, "config_list")
      /\ cli' = IF st = 0
                  THEN [cli EXCEPT !.project = OUTPUT_STORAGE_PROJECT_ID]
                  ELSE cli
      /\ UNCHANGED <<env, program, ci, cur, files, bucket, now, ret,
                     authStates, plan, startTime, buildTargets>>

\* authenticateWithStorageLocation_: gcloud config list, and the return to
\* uploadOutput_ or downloadOutput_.
ConfigList ==
    \E st \in Statuses :
      /\ FatalStep("config_list", << >>,
                   Fatal("config_list", "gcloud config list", st),
                   << >>, IF cur.dir = "up" THEN "cp_up" ELSE "cp_down")
      /\ authStates' = IF st = 0
                         THEN Append(authStates,
                                     [keyFile |-> OUTPUT_STORAGE_KEY_FILE \in files,
                                      cli |-> cli])
                         ELSE authStates
      /\ UNCHANGED <<env, program, ci, cur, files, cli, bucket, now, ret,
                     plan, startTime, buildTargets>>

\* Faulty variant of UploadCopy: the destination names the object.
UploadCopy_ToObject ==
    \E st \in Statuses :
      /\ FatalStep("cp_up", << >>,
                   Copy("cp_up",
                        "gsutil -m cp -r " \o cur.file \o " "
                          \o OUTPUT_STORAGE_LOCATION \o "/" \o cur.file,
                        cur.file, OUTPUT_STORAGE_LOCATION \o "/" \o cur.file, st),
                   << FoldEnd("upload_results") >>, cur.then)
      /\ bucket' = IF st = 0
                     THEN bucket \cup {OUTPUT_STORAGE_LOCATION \o "/" \o cur.file}
                     ELSE bucket
      /\ UNCHANGED <<env, program, ci, cur, files, cli, now, ret,
                     authStates, plan, startTime, buildTargets>>

\* uploadOutput_: the copy to the bucket, and the return to the caller.
UploadCopy ==
    \E st \in Statuses :
      /\ FatalStep("cp_up", << >>,
                   Copy("cp_up",
                        "gsutil -m cp -r " \o cur.file \o " " \o OUTPUT_STORAGE_LOCATION,
                        cur.file, OUTPUT_STORAGE_LOCATION, st),
                   << FoldEnd("upload_results") >>, cur.then)
      /\ bucket' = IF st = 0
                     THEN bucket \cup {OUTPUT_STORAGE_LOCATION \o "/" \o cur.file}
                     ELSE bucket
      /\ UNCHANGED <<env, program, ci, cur, files, cli, now, ret,
                     authStates, plan, startTime, buildTargets>>

\* downloadOutput_: the copy from the bucket.
DownloadCopy ==
    \E st \in Statuses :
      /\ FatalStep("cp_down", << >>,
                   Copy("cp_down",
                        "gsutil cp " \o OUTPUT_STORAGE_LOCATION \o "/" \o cur.file
                          \o " " \o cur.file,
                        OUTPUT_STORAGE_LOCATION \o "/" \o cur.file, cur.file, st),
                   << FoldEnd("download_results"), FoldStart("unzip_results") >>,
                   "unzip")
      /\ files' = IF st = 0 THEN files \cup {cur.file} ELSE files
      /\ UNCHANGED <<env, program, ci, cur, cli, bucket, now, ret,
                     authStates, plan, startTime, buildTargets>>

\* downloadOutput_: unzip -o
Unzip ==
    \E st \in Statuses :
      /\ FatalStep("unzip", << >>,
                   Fatal("unzip", "unzip -o " \o cur.file, st),
                   << FoldEnd("unzip_results"), FoldStart("verify_unzip_results") >>,
                   "ls")
      /\ files' = IF st = 0 THEN files \cup {cur.dirs} ELSE files
      /\ UNCHANGED <<env, program, ci, cur, cli, bucket, now, ret,
                     authStates, plan, startTime, buildTargets>>

\* Faulty variant of VerifyLs: ls is run through exec.
VerifyLs_NonFatal ==
    \E st \in Statuses :
      /\ NonFatalStep("ls", << >>,
                      Fatal("ls", "ls -laR " \o cur.dirs, st),
                      << FoldEnd("verify_unzip_results") >>, "caller")
      /\ UNCHANGED <<env, program, ci, cur, files, cli, bucket, now, ret,
                     authStates, plan, startTime, buildTargets>>

\* downloadOutput_: ls -laR of the expected directories, and the return.
VerifyLs ==
    \E st \in Statuses :
      /\ FatalStep("ls", << >>,
                   Fatal("ls", "ls -laR " \o cur.dirs, st),
                   << FoldEnd("verify_unzip_results") >>, "caller")
      /\ UNCHANGED <<env, program, ci, cur, files, cli, bucket, now, ret,
                     authStates, plan, startTime, buildTargets>>

---------------------------------------------------------------------------
(* processAndUploadDistOutput *)

\* An awaited promise of ../tasks/pr-deploy-bot-utils, resolved or rejected.
Await(step, arg, ok) == [Ev("await", step, arg) EXCEPT !.status = IF ok THEN 0 ELSE 1]

\* A rejected await rejects the async function: nothing after it runs.
AwaitStep(at, e, next) ==
    /\ Running /\ pc = at
    /\ log' = Append(log, e)
    /\ proc' = IF e.status = 0 THEN proc ELSE [proc EXCEPT !.state = "rejected"]
    /\ pc' = IF e.status = 0 THEN next ELSE "dead"

\* The call, and await replaceUrls('test/manual').
processAndUploadDistOutput ==
    /\ Running /\ pc = "caller" /\ ci < Len(program)
    /\ program[ci + 1] = "processAndUploadDistOutput"
    /\ ci' = ci + 1
    /\ \E ok \in BOOLEAN :
          /\ log' = Append(log, At(Await("replaceUrls", "test/manual", ok), ci + 1))
          /\ proc' = IF ok THEN proc ELSE [proc EXCEPT !.state = "rejected"]
          /\ pc' = IF ok THEN "replace_examples" ELSE "dead"
    /\ UNCHANGED <<env, program, cur, files, cli, bucket, now, ret,
                   authStates, plan, startTime, buildTargets>>

\* Faulty variant of ReplaceUrlsExamples: the promise is not awaited, so a
\* rejection does not stop the function.
ReplaceUrlsExamples_NotAwaited ==
    /\ Running /\ pc = "replace_examples"
    /\ \E ok \in BOOLEAN :
          log' = Append(log, Await("replaceUrls", "examples", ok))
    /\ pc' = "zip"
    /\ cur' = [fn |-> "uploadDistOutput", file |-> DIST_OUTPUT_FILE(env),
               dirs |-> DIST_OUTPUT_DIRS, dir |-> "up", then |-> "signal"]
    /\ UNCHANGED <<env, program, ci, files, cli, bucket, proc, now, ret,
                   authStates, plan, startTime, buildTargets>>

\* await replaceUrls('examples'), then the call of uploadDistOutput.
ReplaceUrlsExamples ==
    /\ \E ok \in BOOLEAN :
          AwaitStep("replace_examples", Await("replaceUrls", "examples", ok), "zip")
    /\ cur' = [fn |-> "uploadDistOutput", file |-> DIST_OUTPUT_FILE(env),
               dirs |-> DIST_OUTPUT_DIRS, dir |-> "up", then |-> "signal"]
    /\ UNCHANGED <<env, program, ci, files, cli, bucket, now, ret,
                   authStates, plan, startTime, buildTargets>>

\* await signalDistUploadComplete(), and the return.
SignalDistUploadComplete ==
    /\ \E ok \in BOOLEAN :
          AwaitStep("signal", Await("signalDistUploadComplete", "", ok), "caller")
    /\ UNCHANGED <<env, program, ci, cur, files, cli, bucket, now, ret,
                   authStates, plan, startTime, buildTargets>>

---------------------------------------------------------------------------
(* The checks script *)

\* verifyBranchCreationPoint: what it returns for a branch creation point.
verifyBranchCreationPoint(branchCreationPoint) == branchCreationPoint # ""

\* What a call of a collaborator leaves in the log.
Called(fn, arg, value) == [Ev("call", fn, arg) EXCEPT !.status = IF value THEN 1 ELSE 0]

Gulp(task) == "gulp " \o task

\* main(): the checks of a build that is not a pull-request build.
PushBuildChecks ==
    << Gulp("update-packages"), Gulp("check-exact-versions"), Gulp("lint"),
       Gulp("presubmit"), Gulp("ava"), Gulp("babel-plugin-tests"),
       Gulp("caches-json"), Gulp("json-syntax"), Gulp("dev-dashboard-tests"),
       Gulp("dep-check"), Gulp("check-types") >>

\* Faulty variant of PrBuildChecks: check-links does not depend on DOCS.
PrBuildChecks_LinksAlways(targets) ==
    << Gulp("update-packages"), Gulp("check-exact-versions"), Gulp("lint"),
       Gulp("presubmit") >>
    \o (IF "AVA" \in targets THEN << Gulp("ava") >> ELSE << >>)
    \o (IF "BABEL_PLUGIN" \in targets THEN << Gulp("babel-plugin-tests") >> ELSE << >>)
    \o (IF "CACHES_JSON" \in targets
          THEN << Gulp("caches-json"), Gulp("json-syntax") >> ELSE << >>)
    \o << Gulp("check-links") >>
    \o (IF "DEV_DASHBOARD" \in targets THEN << Gulp("dev-dashboard-tests") >> ELSE << >>)
    \o (IF "RUNTIME" \in targets
          THEN << Gulp("dep-check"), Gulp("check-types") >> ELSE << >>)

\* main(): the checks of a pull-request build with the given build targets.
PrBuildChecks(targets) ==
    << Gulp("update-packages"), Gulp("check-exact-versions"), Gulp("lint"),
       Gulp("presubmit") >>
    \o (IF "AVA" \in targets THEN << Gulp("ava") >> ELSE << >>)
    \o (IF "BABEL_PLUGIN" \in targets THEN << Gulp("babel-plugin-tests") >> ELSE << >>)
    \o (IF "CACHES_JSON" \in targets
          THEN << Gulp("caches-json"), Gulp("json-syntax") >> ELSE << >>)
    \o (IF "DOCS" \in targets THEN << Gulp("check-links") >> ELSE << >>)
    \o (IF "DEV_DASHBOARD" \in targets THEN << Gulp("dev-dashboard-tests") >> ELSE << >>)
    \o (IF "RUNTIME" \in targets
          THEN << Gulp("dep-check"), Gulp("check-types") >> ELSE << >>)

\* Faulty variant of MainYarnChecks: process.exitCode is not set.
MainYarnChecks_NoExitCode ==
    /\ Running /\ pc = "caller" /\ ci < Len(program)
    /\ program[ci + 1] = "main"
    /\ ci' = ci + 1
    /\ startTime' = now
    /\ \E yarnOk \in BOOLEAN :
          /\ log' = log \o
                << At(startTimer(FILENAME, FILENAME), ci + 1),
                   At(Called("runYarnChecks", FILENAME, yarnOk), ci + 1) >> \o
                (IF yarnOk THEN << >>
                 ELSE << At(stopTimer(FILENAME, FILENAME, now, now), ci + 1) >>)
          /\ pc' = IF yarnOk THEN "branch" ELSE "caller"
    /\ UNCHANGED <<env, program, cur, files, cli, bucket, proc, now, ret,
                   authStates, plan, buildTargets>>

\* main(): the top-level timer starts, then runYarnChecks.
MainYarnChecks ==
    /\ Running /\ pc = "caller" /\ ci < Len(program)
    /\ program[ci + 1] = "main"
    /\ ci' = ci + 1
    /\ startTime' = now
    /\ \E yarnOk \in BOOLEAN :
          /\ log' = log \o
                << At(startTimer(FILENAME, FILENAME), ci + 1),
                   At(Called("runYarnChecks", FILENAME, yarnOk), ci + 1) >> \o
                (IF yarnOk THEN << >>
                 ELSE << At(stopTimer(FILENAME, FILENAME, now, now), ci + 1) >>)
          /\ proc' = IF yarnOk THEN proc ELSE [proc EXCEPT !.exitCode = 1]
          /\ pc' = IF yarnOk THEN "branch" ELSE "caller"
    /\ UNCHANGED <<env, program, cur, files, cli, bucket, now, ret,
                   authStates, plan, buildTargets>>

\* main(): a build that is not a pull-request build goes to its checks.
MainPushBuild ==
    /\ Running /\ pc = "branch" /\ ~env.pr
    /\ plan' = PushBuildChecks
    /\ pc' = "checks"
    /\ UNCHANGED <<env, program, ci, cur, log, files, cli, bucket, proc, now, ret,
                   authStates, startTime, buildTargets>>

\* Faulty variant of MainPrBuild: the early return does not stop the timer.
MainPrBuild_NoStop ==
    /\ Running /\ pc = "branch" /\ env.pr
    /\ \E bp \in BranchPoints, targets \in SUBSET AllTargets :
          LET found == verifyBranchCreationPoint(bp)
              verify == << Called("verifyBranchCreationPoint", bp, found) >>
          IN  IF ~found
                THEN /\ log' = log \o verify \o
                          << Ev("console", "ERROR", "Could not find a common ancestor"),
                             Ev("console", "NOTE", "To fix this, rebase your branch") >>
                     /\ proc' = [proc EXCEPT !.exitCode = 1]
                     /\ pc' = "caller"
                     /\ UNCHANGED <<plan, buildTargets>>
                ELSE /\ log' = log \o verify \o
                          << Ev("console", "printChangeSummary", FILENAME),
                             Ev("call", "determineBuildTargets", FILENAME),
                             Ev("call", "reportAllExpectedTests", "") >>
                     /\ buildTargets' = targets
                     /\ plan' = PrBuildChecks(targets)
                     /\ pc' = "checks"
                     /\ UNCHANGED proc
    /\ UNCHANGED <<env, program, ci, cur, files, cli, bucket, now, ret,
                   authStates, startTime>>

\* main(): a pull-request build verifies the branch creation point, prints
\* the change summary and determines the build targets.
MainPrBuild ==
    /\ Running /\ pc = "branch" /\ env.pr
    /\ \E bp \in BranchPoints, targets \in SUBSET AllTargets :
          LET found == verifyBranchCreationPoint(bp)
              verify == << Called("verifyBranchCreationPoint", bp, found) >>
          IN  IF ~found
                THEN /\ log' = log \o verify \o
                          << Ev("console", "ERROR", "Could not find a common ancestor"),
                             Ev("console", "NOTE", "To fix this, rebase your branch"),
                             stopTimer(FILENAME, FILENAME, startTime, now) >>
                     /\ proc' = [proc EXCEPT !.exitCode = 1]
                     /\ pc' = "caller"
                     /\ UNCHANGED <<plan, buildTargets>>
                ELSE /\ log' = log \o verify \o
                          << Ev("console", "printChangeSummary", FILENAME),
                             Ev("call", "determineBuildTargets", FILENAME),
                             Ev("call", "reportAllExpectedTests", "") >>
                     /\ buildTargets' = targets
                     /\ plan' = PrBuildChecks(targets)
                     /\ pc' = "checks"
                     /\ UNCHANGED proc
    /\ UNCHANGED <<env, program, ci, cur, files, cli, bucket, now, ret,
                   authStates, startTime>>

\* main(): the next timedExecOrDie(cmd), with checks.js as the file name.
MainCheck ==
    /\ Running /\ pc = "checks" /\ plan # << >>
    /\ \E d \in CheckDurations, st \in Statuses :
          /\ now + d <= MaxClock
          /\ log' = log \o
                << startTimer(Head(plan), FILENAME),
                   Fatal("check", Head(plan), st) >> \o
                (IF st = 0
                   THEN << stopTimer(Head(plan), FILENAME, now, now + d) >>
                   ELSE << >>)
          /\ now' = now + d
          /\ proc' = execOrDie(proc, st)
          /\ pc' = AfterOrDie(st, "checks")
    /\ plan' = Tail(plan)
    /\ UNCHANGED <<env, program, ci, cur, files, cli, bucket, ret,
                   authStates, startTime, buildTargets>>

\* main(): after the last check the top-level timer stops and main returns.
MainDone ==
    /\ Running /\ pc = "checks" /\ plan = << >>
    /\ log' = Append(log, stopTimer(FILENAME, FILENAME, startTime, now))
    /\ pc' = "caller"
    /\ UNCHANGED <<env, program, ci, cur, files, cli, bucket, proc, now, ret,
                   authStates, plan, startTime, buildTargets>>

\* The script has nothing left to run: Node exits with process.exitCode.
ProcessEnd ==
    /\ Running /\ pc = "caller" /\ ci = Len(program)
    /\ proc' = [proc EXCEPT !.state = "exited", !.status = proc.exitCode]
    /\ pc' = "done"
    /\ UNCHANGED <<env, program, ci, cur, log, files, cli, bucket, now, ret,
                   authStates, plan, startTime, buildTargets>>

---------------------------------------------------------------------------
(* The specification *)

UtilsEntries ==
    {"downloadBuildOutput", "downloadDistOutput", "uploadBuildOutput",
     "uploadDistOutput", "processAndUploadDistOutput", "timedExec", "timedExecOrDie"}

\* What a caller script runs: up to MaxCalls of the exported functions.
UtilsPrograms == UNION {[1..n -> UtilsEntries] : n \in 1..MaxCalls}

\* A Travis build has a build number and may be a pull-request build; a
\* local run has neither.
Envs ==
    {[travis |-> TRUE, buildNumber |-> b, pr |-> p] : b \in BuildNumbers, p \in BOOLEAN}
    \cup {[travis |-> FALSE, buildNumber |-> "", pr |-> FALSE]}

\* The gcloud configuration the machine starts with: none, or another identity.
NoConfig ==
    [credentialed |-> {}, account |-> "", pass_credentials_to_gsutil |-> FALSE,
     project |-> ""]

CliStates ==
    {NoConfig,
     [credentialed |-> {"dev@example.com"}, account |-> "dev@example.com",
      pass_credentials_to_gsutil |-> FALSE, project |-> "some-other-project"]}

Init ==
    /\ \/ /\ program = << "main" >>
          /\ env \in Envs
          /\ cli = NoConfig
       \/ /\ program \in UtilsPrograms
          /\ env \in {e \in Envs : ~e.pr}
          /\ cli \in CliStates
          /\ ~env.travis => cli = NoConfig
    /\ ci = 0
    /\ pc = "caller"
    /\ cur = [fn |-> "", file |-> "", dirs |-> "", dir |-> "", then |-> ""]
    /\ log = << >>
    /\ files = {}
    /\ bucket = {}
    /\ proc = [state |-> "running", status |-> 0, exitCode |-> 0]
    /\ now = 0
    /\ ret = 0
    /\ authStates = << >>
    /\ plan = << >>
    /\ startTime = 0
    /\ buildTargets = {}

Next ==
    \/ TimedExec
    \/ TimedExecOrDie
    \/ uploadBuildOutput
    \/ uploadDistOutput
    \/ downloadBuildOutput
    \/ downloadDistOutput
    \/ Zip
    \/ DecryptTravisKey
    \/ ActivateServiceAccount
    \/ SetAccount
    \/ SetPassCredentials
    \/ SetProject
    \/ ConfigList
    \/ UploadCopy
    \/ DownloadCopy
    \/ Unzip
    \/ VerifyLs
    \/ processAndUploadDistOutput
    \/ ReplaceUrlsExamples
    \/ SignalDistUploadComplete
    \/ MainYarnChecks
    \/ MainPushBuild
    \/ MainPrBuild
    \/ MainCheck
    \/ MainDone
    \/ ProcessEnd

Spec == Init /\ [][Next]_vars

---------------------------------------------------------------------------
(* Reading the log *)

Idx == 1..Len(log)

IsFatal(i, step) == log[i].type = "execOrDie" /\ log[i].step = step

\* The last index below `bound` at which call k ran `step` with success; 0 if none.
LastOk(k, step, bound) ==
    LET S == {j \in 1..(bound - 1) :
                IsFatal(j, step) /\ log[j].call = k /\ log[j].status = 0}
    IN  IF S = {} THEN 0 ELSE CHOOSE j \in S : \A x \in S : x <= j

AuthSteps ==
    << "decrypt", "activate", "set_account", "set_pass_credentials",
       "set_project", "config_list" >>

\* What call k ran through execOrDie.
FatalOf(k) == {i \in Idx : log[i].type = "execOrDie" /\ log[i].call = k}

\* LastOk over the successful commands E of one call, and whether they
\* hold `steps` in this order, all before index `bound`.
LastIn(E, step, bound) ==
    LET S == {j \in E : j < bound /\ log[j].step = step}
    IN  IF S = {} THEN 0 ELSE CHOOSE j \in S : \A x \in S : x <= j

RECURSIVE ChainIn(_, _, _)
ChainIn(E, steps, bound) ==
    IF steps = << >> THEN TRUE
    ELSE LET j == LastIn(E, steps[Len(steps)], bound)
         IN  j > 0 /\ ChainIn(E, SubSeq(steps, 1, Len(steps) - 1), j)

AuthStepSet == {AuthSteps[n] : n \in 1..Len(AuthSteps)}

CountIn(A, step) == Cardinality({i \in A : log[i].step = step})

\* Call k has returned to its caller.
Returned(k) == k < ci \/ (k = ci /\ pc \in {"caller", "done"})

UploadFns == {"uploadBuildOutput", "uploadDistOutput", "processAndUploadDistOutput"}
DownloadFns == {"downloadBuildOutput", "downloadDistOutput"}

---------------------------------------------------------------------------
(* C1 *)

\* C1: in every upload the archive is zipped before the authentication
\* starts, every authentication step has succeeded, in order, before the copy
\* to the bucket is issued, and no copy is issued after a failed zip or a
\* failed authentication step.
C1_UploadOrder ==
    /\ \A i \in Idx : IsFatal(i, "cp_up") => program[log[i].call] \in UploadFns
    /\ \A k \in 1..ci :
          program[k] \in UploadFns
            => LET A == FatalOf(k)
                   E == {i \in A : log[i].status = 0}
               IN
               \A i \in A :
                 /\ log[i].step \in AuthStepSet => LastIn(E, "zip", i) > 0
                 /\ log[i].step = "cp_up"
                      => /\ ChainIn(E, << "zip" >> \o AuthSteps, i)
                         /\ \A j \in A : j < i => j \in E

C1_Witness ==
    \E i \in Idx :
      /\ IsFatal(i, "cp_up") /\ log[i].status = 0
      /\ program[log[i].call] = "uploadBuildOutput"

---------------------------------------------------------------------------
(* C2 *)

\* C2: in every download the order is authenticate, copy from the bucket,
\* unzip -o, ls -laR of the expected directories; each is issued only after
\* all earlier ones succeeded; a failed listing ends the process with the
\* listing's non-zero status although the copy and the extraction succeeded.
C2_DownloadOrder ==
    /\ \A i \in Idx :
          (IsFatal(i, "cp_down") \/ IsFatal(i, "unzip") \/ IsFatal(i, "ls"))
            => program[log[i].call] \in DownloadFns
    /\ \A k \in 1..ci :
          program[k] \in DownloadFns
            => LET A == FatalOf(k)
                   E == {i \in A : log[i].status = 0}
               IN
               \A i \in A :
                 /\ \A j \in A : j < i => j \in E
                 /\ log[i].step = "cp_down" => ChainIn(E, AuthSteps, i)
                 /\ log[i].step = "unzip"
                      => /\ ChainIn(E, AuthSteps \o << "cp_down" >>, i)
                         /\ log[i].cmd = "unzip -o " \o log[LastIn(E, "cp_down", i)].dst
                 /\ log[i].step = "ls"
                      => /\ ChainIn(E, AuthSteps \o << "cp_down", "unzip" >>, i)
                         /\ log[i].cmd \in {"ls -laR " \o BUILD_OUTPUT_DIRS,
                                             "ls -laR " \o DIST_OUTPUT_DIRS}
                         /\ log[i].status # 0
                              => /\ i = Len(log)
                                 /\ proc.state = "exited"
                                 /\ proc.status = log[i].status

C2_Witness ==
    /\ Len(log) > 0
    /\ IsFatal(Len(log), "ls") /\ log[Len(log)].status = 2
    /\ LastOk(ci, "unzip", Len(log)) > 0
    /\ proc.state = "exited" /\ proc.status = 2

---------------------------------------------------------------------------
(* C3 *)

IsAwait(i, step, arg) ==
    log[i].type = "await" /\ log[i].step = step /\ log[i].cmd = arg

\* C3: in processAndUploadDistOutput both rewrites (examples, test/manual)
\* have resolved before the zip; the upload-complete signal is sent only
\* after the copy to the bucket succeeded; after a rejected rewrite or a dead
\* upload the signal is never sent.
C3_RewriteBeforePack ==
    \A i \in Idx :
      LET k == log[i].call IN
      /\ (IsFatal(i, "zip") /\ program[k] = "processAndUploadDistOutput")
           => /\ \E j \in 1..(i - 1) :
                    IsAwait(j, "replaceUrls", "examples")
                      /\ log[j].call = k /\ log[j].status = 0
              /\ \E j \in 1..(i - 1) :
                    IsAwait(j, "replaceUrls", "test/manual")
                      /\ log[j].call = k /\ log[j].status = 0
      /\ IsAwait(i, "signalDistUploadComplete", "")
           => /\ program[k] = "processAndUploadDistOutput"
              /\ LastOk(k, "cp_up", i) > 0
              /\ \A j \in 1..(i - 1) : log[j].call = k => log[j].status = 0

C3_Witness ==
    \E i \in Idx : IsAwait(i, "signalDistUploadComplete", "") /\ log[i].status = 0

---------------------------------------------------------------------------
(* C4 *)

TransferSteps ==
    {"zip", "decrypt", "activate", "set_account", "set_pass_credentials",
     "set_project", "config_list", "cp_up", "cp_down", "unzip", "ls"}

ArchiveOf(k) ==
    IF program[k] \in {"uploadBuildOutput", "downloadBuildOutput"}
      THEN BUILD_OUTPUT_FILE(env) ELSE DIST_OUTPUT_FILE(env)

\* What a successful step has left behind is still there.
Kept(i) ==
    LET k == log[i].call IN
    /\ IsFatal(i, "zip") => ArchiveOf(k) \in files
    /\ IsFatal(i, "decrypt") => OUTPUT_STORAGE_KEY_FILE \in files
    /\ IsFatal(i, "activate") => OUTPUT_STORAGE_SERVICE_ACCOUNT \in cli.credentialed
    /\ IsFatal(i, "set_account") => cli.account = OUTPUT_STORAGE_SERVICE_ACCOUNT
    /\ IsFatal(i, "set_pass_credentials") => cli.pass_credentials_to_gsutil
    /\ IsFatal(i, "set_project") => cli.project = OUTPUT_STORAGE_PROJECT_ID
    /\ IsFatal(i, "cp_up") => (OUTPUT_STORAGE_LOCATION \o "/" \o ArchiveOf(k)) \in bucket
    /\ IsFatal(i, "cp_down") => ArchiveOf(k) \in files
    /\ IsFatal(i, "unzip") => \E d \in {BUILD_OUTPUT_DIRS, DIST_OUTPUT_DIRS} : d \in files

\* C4: a failed fatal step of an upload or download is the last thing the
\* process does: it has exited with that step's non-zero status and nothing
\* was issued after it; what the earlier steps produced is not rolled back;
\* and the process exits 0 only when no fatal step failed.
C4_FatalStepEndsProcess ==
    /\ \A i \in Idx :
          (log[i].type = "execOrDie" /\ log[i].step \in TransferSteps)
            => /\ log[i].status # 0
                    => /\ i = Len(log)
                       /\ proc.state = "exited"
                       /\ proc.status = log[i].status
                       /\ pc = "dead"
               /\ log[i].status = 0 => Kept(i)
    /\ (proc.state = "exited" /\ proc.status = 0)
          => \A i \in Idx : log[i].type = "execOrDie" => log[i].status = 0

C4_Witness ==
    /\ Len(log) > 0
    /\ IsFatal(Len(log), "cp_up") /\ log[Len(log)].status = 1
    /\ proc.state = "exited" /\ proc.status = 1
    /\ ArchiveOf(ci) \in files /\ OUTPUT_STORAGE_KEY_FILE \in files
    /\ cli.project = OUTPUT_STORAGE_PROJECT_ID

---------------------------------------------------------------------------
(* C5 *)

TransferFns == UploadFns \cup DownloadFns

CopyStep(k) == IF program[k] \in UploadFns THEN "cp_up" ELSE "cp_down"

\* Every transfer call authenticates at most once and copies at most once,
\* and a transfer that returned did each exactly once: n transfers, n
\* authentications.
OneAuthOneCopy ==
    /\ \A k \in 1..ci :
          program[k] \in TransferFns
            => LET A == FatalOf(k) IN
               /\ \A step \in AuthStepSet \cup {CopyStep(k)} :
                     /\ CountIn(A, step) <= 1
                     /\ Returned(k) => CountIn(A, step) = 1
               /\ \A j \in A :
                     log[j].step = CopyStep(k)
                       => \A step \in AuthStepSet :
                            \E i \in A : i < j /\ log[i].step = step /\ log[i].status = 0
    /\ Len(authStates)
          = Cardinality({i \in Idx : IsFatal(i, "config_list") /\ log[i].status = 0})

Is1234 == env.travis /\ env.buildNumber = "1234"

\* C5 as stated: with run-id 1234 the archive is amp_build_1234.zip and the
\* copy command of uploadBuildOutput has the destination
\* gs://amp-travis-builds/amp_build_1234.zip; one authentication and one copy
\* per transfer.
C5_AsStated ==
    /\ Is1234 => BUILD_OUTPUT_FILE(env) = "amp_build_1234.zip"
    /\ \A i \in Idx :
          (Is1234 /\ IsFatal(i, "cp_up") /\ program[log[i].call] = "uploadBuildOutput")
            => log[i].dst = "gs://amp-travis-builds/amp_build_1234.zip"
    /\ OneAuthOneCopy

\* C5, amended: with run-id 1234 the archive is amp_build_1234.zip and the
\* copy command of uploadBuildOutput is
\* "gsutil -m cp -r amp_build_1234.zip gs://amp-travis-builds": the archive is
\* its source and the bucket root gs://amp-travis-builds its destination (the
\* object it stores is gs://amp-travis-builds/amp_build_1234.zip); it follows
\* one authentication; one authentication and one copy per transfer.
C5_CopyToBucketRoot ==
    /\ Is1234 => BUILD_OUTPUT_FILE(env) = "amp_build_1234.zip"
    /\ \A i \in Idx :
          (Is1234 /\ IsFatal(i, "cp_up") /\ program[log[i].call] = "uploadBuildOutput")
            => /\ log[i].src = "amp_build_1234.zip"
               /\ log[i].dst = "gs://amp-travis-builds"
               /\ log[i].cmd = "gsutil -m cp -r amp_build_1234.zip gs://amp-travis-builds"
               /\ log[i].status = 0
                    => "gs://amp-travis-builds/amp_build_1234.zip" \in bucket
    /\ OneAuthOneCopy

C5_Witness ==
    /\ Is1234 /\ ci = 2 /\ Returned(2)
    /\ program[1] = "uploadBuildOutput" /\ program[2] \in TransferFns
    /\ Len(authStates) = 2
    /\ "gs://amp-travis-builds/amp_build_1234.zip" \in bucket

---------------------------------------------------------------------------
(* C6 *)

\* C6: whatever the gcloud configuration was at the start, the state a
\* second successful authentication leaves (key file, credentialed accounts,
\* account, pass_credentials_to_gsutil, project) is the state the first left.
C6_AuthIdempotent ==
    \A i, j \in 1..Len(authStates) :
      /\ authStates[i] = authStates[j]
      /\ authStates[i].keyFile
      /\ authStates[i].cli.account = OUTPUT_STORAGE_SERVICE_ACCOUNT
      /\ authStates[i].cli.pass_credentials_to_gsutil
      /\ authStates[i].cli.project = OUTPUT_STORAGE_PROJECT_ID
      /\ OUTPUT_STORAGE_SERVICE_ACCOUNT \in authStates[i].cli.credentialed

C6_Witness ==
    /\ Len(authStates) = 2
    /\ "dev@example.com" \in cli.credentialed

---------------------------------------------------------------------------
(* C7 *)

IsLine(i, word) == log[i].type = "console" /\ log[i].step = word

\* The line at j is a "Done running" line that answers the "Running" line at i.
Answers(j, i) ==
    /\ i < j /\ IsLine(j, "Done running") /\ log[j].cmd = log[i].cmd
    /\ log[j].src = log[i].src /\ log[j].call = log[i].call

DoneFor(i) == {j \in (i + 1)..Len(log) : Answers(j, i)}

\* The "Running" line at i is that of a command execOrDie died on, or that
\* of main()'s top-level timer in a run that died in a check.
DiedUnder(i) ==
    /\ pc = "dead" /\ log[Len(log)].type = "execOrDie"
    /\ \/ i = Len(log) - 1
       \/ program[log[i].call] = "main" /\ log[i].cmd = FILENAME

\* No "Done running" line without its "Running" line before it.
DoneAfterRunning ==
    \A j \in Idx :
      IsLine(j, "Done running")
        => \E i \in 1..(j - 1) : IsLine(i, "Running") /\ Answers(j, i)

\* C7 as stated: once the process has ended, on whatever path, every
\* "Running" line is followed by exactly one "Done running" line.
C7_AsStated ==
    /\ DoneAfterRunning
    /\ proc.state # "running"
         => \A i \in Idx : IsLine(i, "Running") => Cardinality(DoneFor(i)) = 1

\* C7, amended: every timer is stopped exactly once on the paths on which
\* the process lives on (timedExec always; timedExecOrDie when its command
\* succeeds; main() when the yarn checks fail, when the branch creation point
\* is missing, and when all checks pass). When the command of a timedExecOrDie
\* fails the process ends inside execOrDie: that command's timer, and in
\* main() the top-level timer too, are never stopped.
C7_TimerStoppedUnlessDead ==
    /\ DoneAfterRunning
    /\ \A i \in Idx :
          IsLine(i, "Running")
            => LET n == Cardinality(DoneFor(i)) IN
               /\ n <= 1
               /\ (proc.state # "running" /\ ~DiedUnder(i)) => n = 1
               /\ (proc.state # "running" /\ DiedUnder(i)) => n = 0
               /\ (program[log[i].call] = "timedExec") => n = 1

C7_Witness ==
    /\ program = << "main" >> /\ pc = "dead"
    /\ \E i \in Idx : IsLine(i, "Running") /\ log[i].cmd = FILENAME /\ DoneFor(i) = {}
    /\ \E i \in Idx : IsLine(i, "Running") /\ log[i].cmd = Gulp("lint")
                          /\ Cardinality(DoneFor(i)) = 1

---------------------------------------------------------------------------
(* C8 *)

\* C8: every "Done running" line reports e ms as "<m>m <s>s" with
\* 0 <= s <= 59 and 60 m + s = floor(e / 1000); 0 ms is "0m 0s" and 61 s is
\* "1m 1s".
C8_ElapsedText ==
    \A i \in Idx :
      IsLine(i, "Done running")
        => LET e == log[i].ms
               whole == e \div 1000
               m == whole \div 60
               s == whole - 60 * m
           IN  /\ e >= 0
               /\ 0 <= s /\ s <= 59
               /\ log[i].text = ToString(m) \o "m " \o ToString(s) \o "s"
               /\ e = 0 => log[i].text = "0m 0s"
               /\ e = 61000 => log[i].text = "1m 1s"

C8_Witness ==
    /\ \E i \in Idx : IsLine(i, "Done running") /\ log[i].ms = 61000
                          /\ log[i].text = "1m 1s"
    /\ \E i \in Idx : IsLine(i, "Done running") /\ log[i].ms = 0
                          /\ log[i].text = "0m 0s"

---------------------------------------------------------------------------
(* C9 *)

IsCall(i, fn) == log[i].type = "call" /\ log[i].step = fn

\* main() has taken one of its two early returns.
MissingPrecondition ==
    \E i \in Idx :
      /\ log[i].status = 0
      /\ IsCall(i, "runYarnChecks") \/ IsCall(i, "verifyBranchCreationPoint")

\* C9: after runYarnChecks or verifyBranchCreationPoint returned false the
\* process is not terminated on the spot: main sets process.exitCode to 1 and
\* returns, no gulp check runs, no change summary is printed and no build
\* targets are determined; the process then ends with status 1.
\* verifyBranchCreationPoint runs on pull-request builds only and returns true
\* exactly when a branch creation point was found.
C9_MissingPreconditionReturns ==
    /\ MissingPrecondition
         => /\ proc.exitCode = 1
            /\ pc \in {"caller", "done"}
            /\ proc.state = "running" \/ (proc.state = "exited" /\ proc.status = 1)
            /\ \A j \in Idx :
                  /\ log[j].type # "execOrDie"
                  /\ ~IsLine(j, "printChangeSummary")
                  /\ ~IsCall(j, "determineBuildTargets")
    /\ \A i \in Idx :
          IsCall(i, "verifyBranchCreationPoint")
            => /\ env.pr
               /\ (log[i].status = 1) = (log[i].cmd # "")
               /\ log[i].status = 0 => \E j \in 1..(i - 1) :
                                          IsCall(j, "runYarnChecks") /\ log[j].status = 1

C9_Witness ==
    /\ pc = "done" /\ proc.state = "exited" /\ proc.status = 1
    /\ \E i \in Idx : IsCall(i, "verifyBranchCreationPoint") /\ log[i].status = 0

---------------------------------------------------------------------------
(* C10 *)

\* The gulp tasks main() has started, in order.
Started == SelectSeq(log, LAMBDA e : e.type = "execOrDie" /\ e.step = "check")

RanIn(started, task) == \E n \in 1..Len(started) : started[n].cmd = "gulp " \o task

PlaceIn(started, task) == CHOOSE n \in 1..Len(started) : started[n].cmd = "gulp " \o task

Ran(task) == RanIn(Started, task)

Always4 == << "update-packages", "check-exact-versions", "lint", "presubmit" >>

\* Target and task of each optional check.
Optional ==
    { << "AVA", "ava" >>, << "BABEL_PLUGIN", "babel-plugin-tests" >>,
      << "CACHES_JSON", "caches-json" >>, << "CACHES_JSON", "json-syntax" >>,
      << "DOCS", "check-links" >>, << "DEV_DASHBOARD", "dev-dashboard-tests" >>,
      << "RUNTIME", "dep-check" >>, << "RUNTIME", "check-types" >> }

\* main() came to its end through the checks (no early return, no death).
AllChecksPassed ==
    /\ program = << "main" >> /\ ci = 1 /\ pc \in {"caller", "done"}
    /\ ~MissingPrecondition

\* C10: the four unconditional checks come first and in order; on a
\* pull-request build an optional check runs exactly when its target is among
\* the build targets; on another build all optional checks but check-links
\* run, and check-links never does; caches-json precedes json-syntax and
\* dep-check precedes check-types; no check runs twice; a check starts only
\* after every earlier check succeeded.
C10_ChecksRun ==
    LET started == Started
        passed == AllChecksPassed
    IN
    /\ \A n \in 1..Len(started) :
          /\ n <= 4 => started[n].cmd = "gulp " \o Always4[n]
          /\ n < Len(started) => started[n].status = 0
          /\ \A m \in 1..Len(started) : started[m].cmd = started[n].cmd => m = n
    /\ \A o \in Optional :
          /\ (env.pr /\ RanIn(started, o[2])) => o[1] \in buildTargets
          /\ (~env.pr /\ o[2] = "check-links") => ~RanIn(started, o[2])
          /\ passed
               => RanIn(started, o[2]) = IF env.pr THEN o[1] \in buildTargets
                                                   ELSE o[2] # "check-links"
    /\ passed => \A n \in 1..4 : RanIn(started, Always4[n])
    /\ RanIn(started, "json-syntax")
         => /\ RanIn(started, "caches-json")
            /\ PlaceIn(started, "caches-json") < PlaceIn(started, "json-syntax")
    /\ RanIn(started, "check-types")
         => /\ RanIn(started, "dep-check")
            /\ PlaceIn(started, "dep-check") < PlaceIn(started, "check-types")

C10_Witness ==
    /\ AllChecksPassed /\ env.pr
    /\ buildTargets = {"DOCS", "RUNTIME"}
    /\ Ran("check-links") /\ Ran("check-types") /\ ~Ran("ava")

====
